---- MODULE Spec2Model ----
(***************************************************************************)
(* Model of the entity-component storage engine of src/ecs.hpp:            *)
(* ObjectPool (block allocator with a free list), Registry (entity ids and *)
(* the pool directory) and View (multi-type query).                        *)
(*                                                                         *)
(* Addresses.  A chunk of a pool is named by its position in the order in  *)
(* which the pool obtained its memory: the chunks of the first block are   *)
(* 1, 2, ..., those of the next block follow.  Null (0) is nullptr.  A     *)
(* payload pointer is named by the chunk it follows (payload = chunk +     *)
(* sizeof(header)).                                                        *)
(***************************************************************************)
EXTENDS Integers, Sequences, FiniteSets, TLC

VARIABLES m_entities,            \* Registry::m_entities
          m_destroyed_entities,  \* Registry::m_destroyed_entities
          m_pools,               \* Registry::m_pools (PoolSpec: the one pool under test)
          view,                  \* the View object in use
          status,                \* "ok", "aborted" (assert), "exited" (std::exit), "crashed"
          ret                    \* the last call and what it returned

vars == <<m_entities, m_destroyed_entities, m_pools, view, status, ret>>

-----------------------------------------------------------------------------
(* Bounds of the model *)

MaxEntities == 2      \* create_entity mints ids 0 .. MaxEntities-1
MaxDestroyed == 2     \* longest destroyed-id list
MaxChunks == 2        \* chunks in use over all pools of a Registry, and highest cursor
MaxFreed == 2         \* longest free list of a pool of a Registry
PoolMaxChunks == 3    \* chunks a standalone pool may obtain
PoolMaxFreed == 2     \* longest free list of a standalone pool
MaxFrames == 3        \* call frames the stack holds before it is exhausted

-----------------------------------------------------------------------------
(* Program constants *)

\* std::string::npos, the id of ECS_ENTITY_DESTROYED; scaled to the largest
\* integer of the checker, it stays above every id and every size.
ECS_ENTITY_DESTROYED == 2147483647

ECS_REGISTRY_DEFAULT_POOL_BLOCK_SIZE == 30

Null == 0

\* sizeof(ObjectPoolChunk) and alignof(ObjectPoolChunk): two pointers and an
\* Entity of one std::size_t
SizeOfObjectPoolChunk == 24
AlignOfObjectPoolChunk == 8

-----------------------------------------------------------------------------
(* Type identity: type_descriptor::get_name and type_descriptor::get_hash *)

\* the component types: A is TransformComponent and B is Vector3, the two
\* types of the test program that have the default constructor
\* ObjectPool::create<_T> needs
Types == {"A", "B"}

\* get_name<_T>(): the characters of the type's name are copied into the
\* array, then the terminator is written at substr[substr.size()], one
\* element past the end of the array; that write is undefined
get_name(T) == [name |-> CASE T = "A" -> "A"
                           [] T = "B" -> "B",
                out |-> "ub"]

\* the FNV value of a name, as an index into the table of distinct values
get_hash(name) == CASE name = "A" -> 1
                    [] name = "B" -> 2
                    [] OTHER -> 3

\* sizeof(_T)
SizeOf(T) == CASE T = "A" -> 36
               [] T = "B" -> 12

\* values a component can be constructed from; 0 is the default-constructed value
Values == {1, 2}
DefaultValue == 0

Last(s) == s[Len(s)]
pop_back(s) == SubSeq(s, 1, Len(s) - 1)

-----------------------------------------------------------------------------
(* ObjectPool *)

\* the three asserts of the constructor
ObjectPoolAsserts(name, size, block_size) ==
    name # "" /\ size > 0 /\ block_size > 0

\* ObjectPool(name, size, hash, block_size): the members are initialised (no
\* blocks, no cursor, no callbacks), then the body asserts on them; out is
\* "abort" when an assert fails
ObjectPool(name, size, hash, block_size) ==
    [pool |-> [m_type_name |-> name, m_type_size |-> size, m_type_hash |-> hash,
               m_block_size |-> block_size,
               m_blocks |-> <<>>, m_next |-> Null, m_freed_locations |-> <<>>,
               m_type_default_constructor |-> "null", m_type_deconstructor |-> "null",
               chunks |-> <<>>,    \* header of every chunk: next, prev, entity
               objects |-> <<>>,   \* payload of every chunk: constructed or not, its value
               handed |-> {},      \* chunks a malloc has constructed an object in
               overrun |-> FALSE], \* a constructor has written beyond the end of a block
     out |-> IF ObjectPoolAsserts(name, size, block_size) THEN "ok" ELSE "abort"]

\* ObjectPool() = default: every member keeps its initialiser -- the empty
\* name, size 0, hash 0, block size 0, no callbacks -- and no assert runs
ObjectPool_default == ObjectPool("", 0, 0, 0).pool

\* ObjectPool::create<_T>(block_size): pre is the outcome of the get_name<_T>()
\* the call starts with, the rest what follows when the process survives it;
\* the callbacks are set on a pool whose constructor returned
create(T, block_size) ==
    LET made == ObjectPool(get_name(T).name, SizeOf(T), get_hash(get_name(T).name),
                           block_size)
    IN [pool |-> IF made.out = "ok"
                 THEN [made.pool EXCEPT !.m_type_default_constructor = T,
                                        !.m_type_deconstructor = T]
                 ELSE made.pool,
        out |-> made.out,
        pre |-> get_name(T).out]

set_deconstructor(p, fn) == [p EXCEPT !.m_type_deconstructor = fn]
set_default_constructor(p, fn) == [p EXCEPT !.m_type_default_constructor = fn]

\* the order of two steps of one call: what the call ends with when the
\* first step has outcome first and the step after it, if reached, second
Then(first, second) ==
    IF first = "ok" THEN second
    ELSE IF second = "trap" THEN "trap"
    ELSE first

\* the headers a block holds: m_block_size, and the one header written for
\* a block of 0 chunks
headers_per_block(p) == IF p.m_block_size = 0 THEN 1 ELSE p.m_block_size

\* the position in m_blocks of the block that holds chunk
block_of(p, chunk) == ((chunk - 1) \div headers_per_block(p)) + 1

\* _allocate_block: one more block of chunk_size * m_block_size bytes, its
\* chunks chained inside the block; the cursor moves to its first chunk.  The
\* header of the first chunk is written before the loop, whatever
\* m_block_size is: with m_block_size 0 it is the one header of the block and
\* lies in an allocation of 0 bytes.  The i-th header after it lies at
\* block + chunk_size * i, which is no address of an ObjectPoolChunk when
\* chunk_size * i is no multiple of its alignment.  Both writes are
\* undefined: out = "ub".
_allocate_block(p) ==
    LET bs == p.m_block_size
        chunk_size == SizeOfObjectPoolChunk + p.m_type_size
        n == headers_per_block(p)
        block == Len(p.chunks) + 1
        fresh == [i \in 1..n |->
                    [next |-> IF i = n THEN Null ELSE block + i,
                     prev |-> IF i = 1 THEN p.m_next ELSE block + i - 2,
                     entity |-> ECS_ENTITY_DESTROYED]]
        raw == [i \in 1..n |-> [live |-> FALSE, value |-> DefaultValue]]
        linked == IF p.m_next # Null
                  THEN [p.chunks EXCEPT ![p.m_next].next = block]
                  ELSE p.chunks
        misaligned == \E i \in 1..(bs - 1) :
                         (chunk_size * i) % AlignOfObjectPoolChunk # 0
    IN [pool |-> [p EXCEPT !.m_blocks = Append(p.m_blocks, block),
                           !.chunks = linked \o fresh,
                           !.objects = p.objects \o raw,
                           !.m_next = block],
        out |-> IF bs = 0 \/ misaligned THEN "ub" ELSE "ok"]

\* _construct<_T>(entity, chunk, args...): tag, construct, advance the cursor.
\* Reading m_next->next with m_next == nullptr is undefined: out = "ub".  The
\* type check of malloc<_T> has passed, and a pool that carries the name of
\* _T has slots of sizeof(_T) bytes: the object fits its slot.
_construct(p, entity, chunk, value) ==
    [pool |-> [p EXCEPT !.chunks[chunk].entity = entity,
                        !.objects[chunk] = [live |-> TRUE, value |-> value],
                        !.handed = @ \cup {chunk},
                        !.m_next = IF p.m_next = Null THEN Null
                                   ELSE p.chunks[p.m_next].next],
     ptr |-> chunk,
     out |-> IF p.m_next = Null THEN "ub" ELSE "ok"]

\* the chunk that follows chunk inside its block; Null after the last chunk
\* of a block
next_in_block(p, chunk) ==
    IF chunk % headers_per_block(p) # 0 THEN chunk + 1 ELSE Null

\* m_type_default_constructor(object): the default constructor of the type
\* the callback was made for writes an object of that type's size, all zero
\* bytes, from the start of the payload, whose slot has m_type_size bytes.
\* The bytes beyond the slot fall on the header that follows in the block --
\* next, then prev, then entity become 0 -- or, after the last chunk of a
\* block, on the memory behind the block: behind is the position in m_blocks
\* of that block, Null when nothing is written there.  A write beyond the
\* slot is undefined: out = "ub".
default_constructor(p, chunk) ==
    LET excess == SizeOf(p.m_type_default_constructor) - p.m_type_size
        after == next_in_block(p, chunk)
    IN IF excess <= 0
       THEN [pool |-> p, behind |-> Null, out |-> "ok"]
       ELSE IF after # Null
       THEN [pool |-> [p EXCEPT !.chunks[after] =
                          [next |-> IF excess >= 8 THEN Null ELSE @.next,
                           prev |-> IF excess >= 16 THEN Null ELSE @.prev,
                           entity |-> IF excess >= SizeOfObjectPoolChunk THEN 0
                                      ELSE @.entity]],
             behind |-> Null,
             out |-> "ub"]
       ELSE [pool |-> [p EXCEPT !.overrun = TRUE],
             behind |-> block_of(p, chunk),
             out |-> "ub"]

\* what the memory behind a block holds is the allocator's choice.  The node
\* of m_blocks that push_back allocated for the block right after the block
\* itself may lie there: the zero bytes written behind the block then fall
\* on the address the node holds, which reads as nullptr from then on.  The
\* pools a call can leave that wrote behind block behind of pool p
written_behind(p, behind) ==
    IF behind = Null THEN {p}
    ELSE {p, [p EXCEPT !.m_blocks[behind] = Null]}

\* _construct(entity, chunk): tag, run m_type_default_constructor on the
\* payload, advance the cursor by the next the cursor's header holds then
_construct_default(p, entity, chunk) ==
    IF p.m_type_default_constructor = "null"
    THEN [pool |-> [p EXCEPT !.chunks[chunk].entity = entity], ptr |-> Null,
          behind |-> Null, out |-> "trap"]
    ELSE LET tagged == [p EXCEPT !.chunks[chunk].entity = entity]
             made == default_constructor(tagged, chunk)
         IN [pool |-> [made.pool EXCEPT
                          !.objects[chunk] = [live |-> TRUE, value |-> DefaultValue],
                          !.handed = @ \cup {chunk},
                          !.m_next = IF p.m_next = Null THEN Null
                                     ELSE made.pool.chunks[p.m_next].next],
             ptr |-> chunk,
             behind |-> made.behind,
             out |-> Then(made.out, IF p.m_next = Null THEN "ub" ELSE "ok")]

\* malloc<_T>(entity, args...): pre is the outcome of the get_name<_T>() of
\* the type check, the rest what follows when the process survives it
malloc(p, T, entity, value) ==
    LET m == IF get_name(T).name # p.m_type_name
             THEN [pool |-> p, ptr |-> Null, out |-> "exit"]
             ELSE IF Len(p.m_freed_locations) > 0
             THEN LET c == _construct(p, entity, Last(p.m_freed_locations), value)
                  IN [c EXCEPT !.pool.m_freed_locations = pop_back(p.m_freed_locations)]
             ELSE LET q == IF p.m_next = Null THEN _allocate_block(p)
                           ELSE [pool |-> p, out |-> "ok"]
                      c == _construct(q.pool, entity, q.pool.m_next, value)
                  IN [c EXCEPT !.out = Then(q.out, c.out)]
    IN [pool |-> m.pool, ptr |-> m.ptr, out |-> m.out, pre |-> get_name(T).out]

\* malloc(entity)
malloc_bytes(p, entity) ==
    IF Len(p.m_freed_locations) > 0
    THEN LET c == _construct_default(p, entity, Last(p.m_freed_locations))
         IN [c EXCEPT !.pool.m_freed_locations = pop_back(p.m_freed_locations)]
    ELSE LET q == IF p.m_next = Null THEN _allocate_block(p)
                  ELSE [pool |-> p, out |-> "ok"]
             c == _construct_default(q.pool, entity, q.pool.m_next)
         IN [c EXCEPT !.out = Then(q.out, c.out)]

\* the tail shared by the three free overloads: destruct, untag, push.  The
\* chunk is not looked at before: one that holds no object (freed already, or
\* never handed out) is untagged and pushed like any other, and the
\* destructor of a component type of the model changes nothing there
Release(p, chunk) ==
    [p EXCEPT !.objects[chunk] = [live |-> FALSE, value |-> DefaultValue],
              !.chunks[chunk].entity = ECS_ENTITY_DESTROYED,
              !.m_freed_locations = Append(p.m_freed_locations, chunk)]

\* free<_T>(type): pre is the outcome of the get_name<_T>() of the type
\* check, the rest what follows when the process survives it
free(p, T, ptr) ==
    IF get_name(T).name # p.m_type_name
    THEN [pool |-> p, out |-> "exit", pre |-> get_name(T).out]
    ELSE [pool |-> Release(p, ptr), out |-> "ok", pre |-> get_name(T).out]

\* free(std::byte*) and free(ObjectPoolChunk*): through m_type_deconstructor
free_chunk(p, chunk) ==
    IF p.m_type_deconstructor = "null"
    THEN [pool |-> p, out |-> "trap"]
    ELSE [pool |-> Release(p, chunk), out |-> "ok"]

\* the loop of the three lookups: follow next from chunk until the tag matches
RECURSIVE ScanChain(_, _, _)
ScanChain(p, chunk, entity) ==
    IF chunk = Null THEN Null
    ELSE IF p.chunks[chunk].entity = entity THEN chunk
    ELSE ScanChain(p, p.chunks[chunk].next, entity)

\* get_entitys_object_pool_chunk(entity), get_entitys_object(entity): start at
\* m_blocks.front(); front() of an empty list is undefined.
get_entitys_object_pool_chunk(p, entity) ==
    IF Len(p.m_blocks) = 0
    THEN [ptr |-> Null, out |-> "ub"]
    ELSE [ptr |-> ScanChain(p, p.m_blocks[1], entity), out |-> "ok"]

\* get_entitys_object<_T>(entity): the same scan, the result cast to _T*
get_entitys_object(p, T, entity) ==
    IF Len(p.m_blocks) = 0
    THEN [ptr |-> Null, out |-> "ub"]
    ELSE [ptr |-> ScanChain(p, p.m_blocks[1], entity), out |-> "ok"]

\* ~ObjectPool(): over every block and each of its m_block_size chunks, call
\* the destructor (when one is set) on the chunks whose tag is not the
\* sentinel, then free the block.  called is the set of chunks the destructor
\* ran on; chunks and objects keep the last content of the freed memory.  A
\* destructor run on a payload that holds no object is undefined.  In a
\* block whose address reads as nullptr the header of the first chunk is
\* read at address 0: out = "fault", the process dies there.
ObjectPool_dtor(p) ==
    LET reached == {b \in DOMAIN p.m_blocks : p.m_blocks[b] # Null}
        visited == {p.m_blocks[b] + i : b \in reached, i \in 0..(p.m_block_size - 1)}
        called == {c \in visited : /\ p.chunks[c].entity # ECS_ENTITY_DESTROYED
                                   /\ p.m_type_deconstructor # "null"}
    IN [pool |-> [p EXCEPT !.objects = [c \in DOMAIN p.objects |->
                                           IF c \in called
                                           THEN [live |-> FALSE, value |-> DefaultValue]
                                           ELSE p.objects[c]],
                           !.m_blocks = <<>>],
        called |-> called,
        out |-> IF \E b \in DOMAIN p.m_blocks : p.m_blocks[b] = Null /\ p.m_block_size > 0
                THEN "fault"
                ELSE IF \E c \in called : ~p.objects[c].live THEN "ub" ELSE "ok"]

-----------------------------------------------------------------------------
(* Registry *)

\* get_pool(hash): the first registered pool with that hash; a pool pointer is
\* the pool's position in m_pools, Null when there is none
RECURSIVE get_pool_from(_, _, _)
get_pool_from(pools, hash, i) ==
    IF i > Len(pools) THEN Null
    ELSE IF pools[i].m_type_hash = hash THEN i
    ELSE get_pool_from(pools, hash, i + 1)

get_pool(pools, hash) == get_pool_from(pools, hash, 1)

\* get_pool<_T>(): the pool found for the hash of the name, when the
\* get_name<_T>() that yields the name returns
get_pool_of(pools, T) == get_pool(pools, get_hash(get_name(T).name))

\* get_component<_T>(entity): pre is the outcome of the get_name<_T>() of
\* get_pool<_T>(), the rest what follows when the process survives it
get_component(pools, T, entity) ==
    LET pool == get_pool_of(pools, T)
        found == IF pool # Null
                 THEN get_entitys_object(pools[pool], T, entity)
                 ELSE [ptr |-> Null, out |-> "ok"]
    IN [ptr |-> found.ptr, out |-> found.out, pre |-> get_name(T).out]

\* get_component(entity, hash)
get_component_hash(pools, entity, hash) ==
    LET pool == get_pool(pools, hash)
    IN IF pool # Null
       THEN get_entitys_object_pool_chunk(pools[pool], entity)
       ELSE [ptr |-> Null, out |-> "ok"]

\* get_pool(hash) const: the body is the call get_pool(hash) on the const
\* Registry, which overload resolution binds to this const overload again; each
\* call opens one more frame and none returns
RECURSIVE get_pool_const(_, _, _)
get_pool_const(pools, hash, frames) ==
    IF frames >= MaxFrames
    THEN [ptr |-> Null, out |-> "recursion"]
    ELSE get_pool_const(pools, hash, frames + 1)

\* get_pool<_T>() const: pre is the outcome of its get_name<_T>(), the rest
\* what follows when the process survives it
get_pool_of_const(pools, T) ==
    LET r == get_pool_const(pools, get_hash(get_name(T).name), 1)
    IN [ptr |-> r.ptr, out |-> r.out, pre |-> get_name(T).out]

\* get_component(entity, hash) const: the body is the call
\* get_component(entity, hash), again this const overload
RECURSIVE get_component_hash_const(_, _, _, _)
get_component_hash_const(pools, entity, hash, frames) ==
    IF frames >= MaxFrames
    THEN [ptr |-> Null, out |-> "recursion"]
    ELSE get_component_hash_const(pools, entity, hash, frames + 1)

\* create_entity recycling the oldest destroyed id (a variant for sensitivity checks)
create_entity_fifo(entities, destroyed) ==
    IF Len(destroyed) > 0
    THEN LET id == Head(destroyed)
         IN [entities |-> [entities EXCEPT ![id + 1] = id],
             destroyed |-> Tail(destroyed),
             id |-> id]
    ELSE [entities |-> Append(entities, Len(entities)),
          destroyed |-> destroyed,
          id |-> Len(entities)]

\* create_entity minting ids from 1 (a variant for sensitivity checks)
create_entity_from_one(entities, destroyed) ==
    IF Len(destroyed) > 0
    THEN LET id == Last(destroyed)
         IN [entities |-> [entities EXCEPT ![id + 1] = id],
             destroyed |-> pop_back(destroyed),
             id |-> id]
    ELSE [entities |-> Append(entities, Len(entities) + 1),
          destroyed |-> destroyed,
          id |-> Len(entities) + 1]

\* create_entity(): the id returned and the two vectors afterwards
create_entity(entities, destroyed) ==
    IF Len(destroyed) > 0
    THEN LET id == Last(destroyed)
         IN [entities |-> [entities EXCEPT ![id + 1] = id],
             destroyed |-> pop_back(destroyed),
             id |-> id]
    ELSE [entities |-> Append(entities, Len(entities)),
          destroyed |-> destroyed,
          id |-> Len(entities)]

\* destroy_entity asserting on the sentinel only (a variant for sensitivity checks)
destroy_entity_asserts_sentinel_only(entities, entity) ==
    entity # ECS_ENTITY_DESTROYED

\* the two asserts of destroy_entity
destroy_entity_asserts(entities, entity) ==
    entity # ECS_ENTITY_DESTROYED /\ entity < Len(entities)

\* the loop of destroy_entity over one pool: free the chunk the scan finds
destroy_in_pool(p, entity) ==
    LET chunk == get_entitys_object_pool_chunk(p, entity)
    IN IF chunk.out # "ok" THEN [pool |-> p, out |-> chunk.out]
       ELSE IF chunk.ptr # Null /\ p.chunks[chunk.ptr].entity = entity
       THEN free_chunk(p, chunk.ptr)
       ELSE [pool |-> p, out |-> "ok"]

\* destroy_entity erasing the entry instead of marking it (a variant for
\* sensitivity checks)
destroy_entity_erasing(entities, destroyed, pools, entity) ==
    [entities |-> [i \in 1..(Len(entities) - 1) |->
                      IF i < entity + 1 THEN entities[i] ELSE entities[i + 1]],
     destroyed |-> Append(destroyed, entity),
     pools |-> [i \in DOMAIN pools |-> destroy_in_pool(pools[i], entity).pool],
     out |-> "ok"]

\* destroy_entity(entity) past its asserts
destroy_entity(entities, destroyed, pools, entity) ==
    [entities |-> [entities EXCEPT ![entity + 1] = ECS_ENTITY_DESTROYED],
     destroyed |-> Append(destroyed, entity),
     pools |-> [i \in DOMAIN pools |-> destroy_in_pool(pools[i], entity).pool],
     out |-> IF \E i \in DOMAIN pools : destroy_in_pool(pools[i], entity).out = "trap"
             THEN "trap"
             ELSE IF \E i \in DOMAIN pools : destroy_in_pool(pools[i], entity).out = "ub"
             THEN "ub" ELSE "ok"]

\* create_component<_T> registering a pool without asking get_pool (a variant
\* for sensitivity checks)
create_component_always_registers(pools, T, entity, value) ==
    LET made == create(T, ECS_REGISTRY_DEFAULT_POOL_BLOCK_SIZE)
        registered == Append(pools, made.pool)
        target == Len(registered)
        m == malloc(registered[target], T, entity, value)
    IN IF made.out # "ok"
       THEN [pools |-> pools, target |-> Null, ptr |-> Null, out |-> made.out,
             pre |-> get_name(T).out]
       ELSE [pools |-> [registered EXCEPT ![target] = m.pool],
             target |-> target, ptr |-> m.ptr, out |-> m.out, pre |-> get_name(T).out]

\* create_component<_T>(entity, args...) past its assert: pre is the outcome
\* of the get_name<_T>() of get_pool<_T>(), the rest what follows when the
\* process survives it; a pool whose constructor aborts is not registered
create_component(pools, T, entity, value) ==
    LET found == get_pool_of(pools, T)
        made == create(T, ECS_REGISTRY_DEFAULT_POOL_BLOCK_SIZE)
        registered == IF found = Null THEN Append(pools, made.pool) ELSE pools
        target == IF found = Null THEN Len(registered) ELSE found
        m == malloc(registered[target], T, entity, value)
    IN IF found = Null /\ made.out # "ok"
       THEN [pools |-> pools, target |-> Null, ptr |-> Null, out |-> made.out,
             pre |-> get_name(T).out]
       ELSE [pools |-> [registered EXCEPT ![target] = m.pool],
             target |-> target, ptr |-> m.ptr, out |-> m.out, pre |-> get_name(T).out]

\* create_component(entity, id, name, size, deconstructor, default_constructor,
\* block_size) past its assert; d carries the arguments after entity.  With
\* no pool found the constructor of the pool runs, and a call whose
\* constructor aborts registers nothing.  behind is the block of the target
\* pool the constructor of the component wrote behind, Null when none
create_component_bytes(pools, entity, d) ==
    LET found == get_pool(pools, d.id)
        built == ObjectPool(d.name, d.size, d.id, d.block_size)
        made == set_default_constructor(
                    set_deconstructor(built.pool, d.deconstructor),
                    d.default_constructor)
        registered == IF found = Null THEN Append(pools, made) ELSE pools
        target == IF found = Null THEN Len(registered) ELSE found
        m == malloc_bytes(registered[target], entity)
    IN IF found = Null /\ built.out # "ok"
       THEN [pools |-> pools, target |-> Null, ptr |-> Null, behind |-> Null,
             out |-> built.out]
       ELSE [pools |-> [registered EXCEPT ![target] = m.pool],
             target |-> target, ptr |-> m.ptr, behind |-> m.behind, out |-> m.out]

\* ~Registry(): delete every pool
Registry_dtor(pools) ==
    [pools |-> [i \in DOMAIN pools |-> ObjectPool_dtor(pools[i]).pool],
     out |-> IF \E i \in DOMAIN pools : ObjectPool_dtor(pools[i]).out = "fault"
             THEN "fault"
             ELSE IF \E i \in DOMAIN pools : ObjectPool_dtor(pools[i]).out = "ub"
             THEN "ub" ELSE "ok"]

-----------------------------------------------------------------------------
(* View *)

\* View(registry): K is counted from the type list
View(ts) ==
    [types |-> ts,
     m_type_count |-> Len(ts),
     m_reserved_from_valid |-> [i \in 1..Len(ts) |-> Null]]

\* fill_result counting a hit without caching its pointer (a variant for
\* sensitivity checks)
RECURSIVE fill_result_uncached(_, _, _, _, _)
fill_result_uncached(pools, ts, i, entity, acc) ==
    LET target_pool == get_pool_of(pools, ts[i])
        target_ptr == IF target_pool # Null
                      THEN get_entitys_object(pools[target_pool], ts[i], entity).ptr
                      ELSE Null
    IN IF target_pool # Null /\ target_ptr # Null
       THEN LET hit == [cache |-> acc.cache, count |-> acc.count + 1]
            IN IF i < Len(ts) THEN fill_result_uncached(pools, ts, i + 1, entity, hit)
               ELSE hit
       ELSE acc

\* fill_result<_Head, _Tail...>: look the head type up, cache and count it, and
\* go on to the tail only after a hit
RECURSIVE fill_result(_, _, _, _, _)
fill_result(pools, ts, i, entity, acc) ==
    LET target_pool == get_pool_of(pools, ts[i])
        target_ptr == IF target_pool # Null
                      THEN get_entitys_object(pools[target_pool], ts[i], entity).ptr
                      ELSE Null
    IN IF target_pool # Null /\ target_ptr # Null
       THEN LET hit == [cache |-> [acc.cache EXCEPT ![i] = target_ptr],
                        count |-> acc.count + 1]
            IN IF i < Len(ts) THEN fill_result(pools, ts, i + 1, entity, hit) ELSE hit
       ELSE acc

\* has_required filling the cache without clearing it first (a variant for
\* sensitivity checks)
has_required_no_clear(pools, v, entity) ==
    IF entity = ECS_ENTITY_DESTROYED
    THEN [result |-> FALSE, cache |-> v.m_reserved_from_valid,
          cleared |-> v.m_reserved_from_valid, pre |-> "ok"]
    ELSE LET filled == fill_result(pools, v.types, 1, entity,
                                   [cache |-> v.m_reserved_from_valid, count |-> 0])
         IN [result |-> IF Len(v.types) > 1 THEN filled.count = v.m_type_count
                        ELSE filled.cache[1] # Null,
             cache |-> filled.cache,
             cleared |-> v.m_reserved_from_valid,
             pre |-> get_name(v.types[1]).out]

\* has_required(entity): the answer and the cache afterwards.  Past the
\* sentinel test the cache is cleared (cleared), then the first get_pool<_T>()
\* runs get_name<_T>(): pre is its outcome, result and cache what follows
\* when the process survives it
has_required(pools, v, entity) ==
    IF entity = ECS_ENTITY_DESTROYED
    THEN [result |-> FALSE, cache |-> v.m_reserved_from_valid,
          cleared |-> v.m_reserved_from_valid, pre |-> "ok"]
    ELSE LET cleared == [i \in 1..Len(v.types) |-> Null]
             filled == fill_result(pools, v.types, 1, entity,
                                   [cache |-> cleared, count |-> 0])
         IN [result |-> IF Len(v.types) > 1 THEN filled.count = v.m_type_count
                        ELSE filled.cache[1] # Null,
             cache |-> filled.cache,
             cleared |-> cleared,
             pre |-> get_name(v.types[1]).out]

\* get<_Target>(): the element of m_reserved_from_valid of type _Target*
get(v, T) ==
    v.m_reserved_from_valid[CHOOSE i \in 1..Len(v.types) : v.types[i] = T]

-----------------------------------------------------------------------------
(* Inputs *)

\* entity values a caller can pass: every id the model mints (out of range
\* while the entity array is shorter) and the sentinel
EntityInputs == 0..(MaxEntities - 1) \cup {ECS_ENTITY_DESTROYED}

\* block sizes a caller asks a standalone pool for
BlockSizes == {1, 2}

\* argument lists of the type-erased create_component after entity: type A
\* with a block of one chunk
ErasedArgs ==
    {[id |-> get_hash(get_name(T).name), name |-> get_name(T).name, size |-> SizeOf(T),
      deconstructor |-> T, default_constructor |-> T, block_size |-> 1] :
        T \in {"A"}}

\* argument lists of the type-erased create_component after entity, as a
\* caller without static types can supply them: the hash of B with the name
\* and size of either type, with the callbacks of A or with none, with either
\* block size.  Under the name and size of B the callbacks are those of a
\* larger type
WideErasedArgs ==
    {[id |-> get_hash(get_name(H).name), name |-> get_name(N).name, size |-> SizeOf(N),
      deconstructor |-> fn, default_constructor |-> fn, block_size |-> bs] :
        H \in {"B"}, N \in Types, fn \in {"A", "null"}, bs \in BlockSizes}

\* argument lists the constructor of the pool rejects: an empty name, a size
\* of 0, a block of 0 chunks
RejectedErasedArgs ==
    {[id |-> get_hash(get_name("B").name), name |-> n, size |-> sz,
      deconstructor |-> "A", default_constructor |-> "A", block_size |-> bs] :
        n \in {"", get_name("B").name}, sz \in {0, SizeOf("B")}, bs \in {0, 1}}
    \ {[id |-> get_hash(get_name("B").name), name |-> get_name("B").name,
         size |-> SizeOf("B"),
         deconstructor |-> "A", default_constructor |-> "A", block_size |-> 1]}

\* type lists a View is instantiated with
ViewTypeLists == {<<"A">>, <<"A", "B">>}

\* the record of a call: what was called, with which arguments, and the value
\* returned (an id, a pointer, a pool, or 1/0 for true/false)
Call(op, type, entity, arg, val) ==
    [op |-> op, type |-> type, entity |-> entity, arg |-> arg, val |-> val]

\* the value of a field of Call that the call does not use
NoArg == 0 - 1

\* what an undefined read (through nullptr, of front() of an empty list) or
\* write (one past the array of get_name, through a misaligned header
\* pointer, beyond a slot or a block) can do: the process dies there, or it
\* carries on (with a null value read, with the bytes written)
AfterUB == {"crashed", "ok"}

\* what a call that allocates or releases memory can do on top of its own
\* outcomes once a constructor has written beyond the end of a block: the
\* allocator finds its bookkeeping overwritten and ends the process
AfterOverrun(pools) ==
    IF \E i \in DOMAIN pools : pools[i].overrun THEN {"crashed"} ELSE {}

\* malloc(entity) or malloc<_T> on pool p allocates a block
allocates(p) == Len(p.m_freed_locations) = 0 /\ p.m_next = Null

\* what a call that calls itself without end can do: the stack is exhausted
\* and the process dies, or (the self-call compiled to a jump) it never returns
AfterRecursion == {"crashed", "hung"}

\* the status after a call: "ub" is an undefined read or write, "trap" a
\* call through a null function pointer, "exit" the std::exit of the type
\* check, "abort" a failed assert, "recursion" a call that only calls itself
Outcome(out) == IF out = "ub" THEN AfterUB
                ELSE IF out = "recursion" THEN AfterRecursion
                ELSE IF out = "trap" THEN {"crashed"}
                ELSE IF out = "exit" THEN {"exited"}
                ELSE IF out = "abort" THEN {"aborted"}
                ELSE {"ok"}

\* chunks of a pool that hold an object or wait on the free list
InUse(p) ==
    Cardinality({c \in DOMAIN p.chunks : p.objects[c].live})
        + Len(p.m_freed_locations)

RECURSIVE TotalInUse(_, _)
TotalInUse(pools, i) ==
    IF i > Len(pools) THEN 0 ELSE InUse(pools[i]) + TotalInUse(pools, i + 1)

\* an allocation stays inside the bounds of the model: it reuses a freed
\* chunk or the chunks in use stay within MaxChunks, and the cursor is not
\* past MaxChunks
WithinChunks(pools, pool) ==
    /\ pool # Null => pools[pool].m_next <= MaxChunks
    /\ \/ TotalInUse(pools, 1) < MaxChunks
       \/ pool # Null /\ Len(pools[pool].m_freed_locations) > 0

-----------------------------------------------------------------------------
(* Registry and View: the state after construction and the calls *)

Init ==
    /\ m_entities = <<>>
    /\ m_destroyed_entities = <<>>
    /\ m_pools = <<>>
    /\ view = View(<<"A">>)
    /\ status = "ok"
    /\ ret = Call("none", "", NoArg, NoArg, NoArg)

CreateEntity ==
    /\ status = "ok"
    /\ Len(m_destroyed_entities) > 0 \/ Len(m_entities) < MaxEntities
    /\ LET r == create_entity(m_entities, m_destroyed_entities)
       IN /\ m_entities' = r.entities
          /\ m_destroyed_entities' = r.destroyed
          /\ ret' = Call("create_entity", "", NoArg, NoArg, r.id)
    /\ status' \in {"ok"} \cup (IF Len(m_destroyed_entities) = 0
                                THEN AfterOverrun(m_pools) ELSE {})
    /\ UNCHANGED <<m_pools, view>>

DestroyEntity(entity) ==
    /\ status = "ok"
    /\ IF ~destroy_entity_asserts(m_entities, entity)
       THEN /\ status' = "aborted"
            /\ ret' = Call("destroy_entity", "", entity, NoArg, NoArg)
            /\ UNCHANGED <<m_entities, m_destroyed_entities, m_pools, view>>
       ELSE /\ Len(m_destroyed_entities) < MaxDestroyed
            /\ LET r == destroy_entity(m_entities, m_destroyed_entities, m_pools, entity)
               IN /\ \A i \in DOMAIN r.pools :
                        Len(r.pools[i].m_freed_locations) <= MaxFreed
                  /\ m_entities' = r.entities
                  /\ m_destroyed_entities' = r.destroyed
                  /\ m_pools' = r.pools
                  /\ status' \in Outcome(r.out) \cup AfterOverrun(m_pools)
            /\ ret' = Call("destroy_entity", "", entity, NoArg, NoArg)
            /\ UNCHANGED view

CreateComponent(T, entity, value) ==
    /\ status = "ok"
    /\ IF entity = ECS_ENTITY_DESTROYED
       THEN /\ status' = "aborted"
            /\ ret' = Call("create_component", T, entity, value, Null)
            /\ UNCHANGED <<m_entities, m_destroyed_entities, m_pools, view>>
       ELSE /\ LET found == get_pool_of(m_pools, T)
               IN WithinChunks(m_pools, found)
            /\ LET r == create_component(m_pools, T, entity, value)
               IN \/ /\ "crashed" \in Outcome(r.pre)
                     /\ m_pools' = m_pools
                     /\ status' = "crashed"
                     /\ ret' = Call("create_component", T, entity, value, Null)
                  \/ /\ "ok" \in Outcome(r.pre)
                     /\ m_pools' = r.pools
                     /\ status' \in Outcome(r.out) \cup AfterOverrun(m_pools)
                     /\ ret' = Call("create_component", T, entity, value, r.ptr)
            /\ UNCHANGED <<m_entities, m_destroyed_entities, view>>

CreateComponentBytes(entity, d) ==
    /\ status = "ok"
    /\ IF entity = ECS_ENTITY_DESTROYED
       THEN /\ status' = "aborted"
            /\ ret' = Call("create_component_bytes", d.name, entity, d.block_size, Null)
            /\ UNCHANGED <<m_entities, m_destroyed_entities, m_pools, view>>
       ELSE /\ LET found == get_pool(m_pools, d.id)
               IN WithinChunks(m_pools, found)
            /\ LET r == create_component_bytes(m_pools, entity, d)
                   found == get_pool(m_pools, d.id)
               IN /\ \/ /\ r.target = Null
                        /\ m_pools' = r.pools
                     \/ /\ r.target # Null
                        /\ \E q \in written_behind(r.pools[r.target], r.behind) :
                              m_pools' = [r.pools EXCEPT ![r.target] = q]
                  /\ status' \in Outcome(r.out)
                                   \cup (IF found = Null \/ allocates(m_pools[found])
                                         THEN AfterOverrun(m_pools) ELSE {})
                  /\ ret' = Call("create_component_bytes", d.name, entity, d.block_size, r.ptr)
            /\ UNCHANGED <<m_entities, m_destroyed_entities, view>>

GetComponent(T, entity) ==
    /\ status = "ok"
    /\ LET r == get_component(m_pools, T, entity)
       IN \/ /\ "crashed" \in Outcome(r.pre)
             /\ status' = "crashed"
             /\ ret' = Call("get_component", T, entity, NoArg, Null)
          \/ /\ "ok" \in Outcome(r.pre)
             /\ status' \in Outcome(r.out)
             /\ ret' = Call("get_component", T, entity, NoArg, r.ptr)
    /\ UNCHANGED <<m_entities, m_destroyed_entities, m_pools, view>>

GetPool(T) ==
    /\ status = "ok"
    /\ \/ /\ "crashed" \in Outcome(get_name(T).out)
          /\ status' = "crashed"
          /\ ret' = Call("get_pool", T, NoArg, NoArg, Null)
       \/ /\ "ok" \in Outcome(get_name(T).out)
          /\ status' = "ok"
          /\ ret' = Call("get_pool", T, NoArg, NoArg, get_pool_of(m_pools, T))
    /\ UNCHANGED <<m_entities, m_destroyed_entities, m_pools, view>>

Next ==
    \/ CreateEntity
    \/ \E entity \in EntityInputs : DestroyEntity(entity)
    \/ \E T \in Types, entity \in EntityInputs, value \in Values :
          CreateComponent(T, entity, value)
    \/ \E entity \in EntityInputs, d \in ErasedArgs : CreateComponentBytes(entity, d)
    \/ \E T \in Types, entity \in EntityInputs : GetComponent(T, entity)
    \/ \E T \in Types : GetPool(T)

Spec == Init /\ [][Next]_vars

-----------------------------------------------------------------------------
(* A standalone ObjectPool: the state after construction and the calls *)

\* the pool under test
Pool == m_pools[1]

\* chunks whose payload a caller holds a valid pointer to
LiveChunks(p) == {c \in DOMAIN p.chunks : p.objects[c].live}

\* block sizes a caller asks a standalone pool for: the 0 the constructor
\* rejects and the largest block the pool may hold included
PoolBlockSizes == BlockSizes \cup {0, PoolMaxChunks}

\* the callbacks a caller of a standalone pool sets: the default constructor
\* and the destructor of the pool's type, or none
Callbacks == {"A", "null"}

\* an allocation stays inside the bounds of the model
PoolWithinChunks(p) ==
    (Len(p.m_freed_locations) = 0 /\ p.m_next = Null) => Len(p.chunks) < PoolMaxChunks

\* the pool is made by create<A>(bs), by the constructor with arguments or
\* by the default constructor.  A create that dies in get_name leaves no
\* pool; a constructor that aborts leaves the pool it was initialising
PoolInit ==
    /\ m_entities = <<>>
    /\ m_destroyed_entities = <<>>
    /\ \/ \E bs \in PoolBlockSizes :
             \/ LET made == create("A", bs)
                IN \/ /\ "crashed" \in Outcome(made.pre)
                      /\ m_pools = <<>>
                      /\ status = "crashed"
                   \/ /\ "ok" \in Outcome(made.pre)
                      /\ m_pools = <<made.pool>>
                      /\ status \in Outcome(made.out)
             \/ LET made == ObjectPool(get_name("A").name, SizeOf("A"),
                                       get_hash(get_name("A").name), bs)
                IN /\ m_pools = <<made.pool>>
                   /\ status \in Outcome(made.out)
       \/ /\ m_pools = <<ObjectPool_default>>
          /\ status = "ok"
    /\ view = View(<<"A">>)
    /\ ret = Call("none", "", NoArg, NoArg, NoArg)

PoolMalloc(T, entity, value) ==
    /\ status = "ok"
    /\ PoolWithinChunks(Pool)
    /\ LET r == malloc(Pool, T, entity, value)
       IN \/ /\ "crashed" \in Outcome(r.pre)
             /\ m_pools' = m_pools
             /\ status' = "crashed"
             /\ ret' = Call("malloc", T, entity, value, Null)
          \/ /\ "ok" \in Outcome(r.pre)
             /\ m_pools' = <<r.pool>>
             /\ status' \in Outcome(r.out) \cup AfterOverrun(m_pools)
             /\ ret' = Call("malloc", T, entity, value, r.ptr)
    /\ UNCHANGED <<m_entities, m_destroyed_entities, view>>

PoolMallocBytes(entity) ==
    /\ status = "ok"
    /\ PoolWithinChunks(Pool)
    /\ LET r == malloc_bytes(Pool, entity)
       IN /\ \E q \in written_behind(r.pool, r.behind) : m_pools' = <<q>>
          /\ status' \in Outcome(r.out)
                           \cup (IF allocates(Pool) THEN AfterOverrun(m_pools) ELSE {})
          /\ ret' = Call("malloc_bytes", "", entity, NoArg, r.ptr)
    /\ UNCHANGED <<m_entities, m_destroyed_entities, view>>

\* ptr is the payload of a chunk of the pool's blocks, whether or not it
\* holds an object
PoolFree(T, ptr) ==
    /\ status = "ok"
    /\ ptr \in DOMAIN Pool.chunks
    /\ Len(Pool.m_freed_locations) < PoolMaxFreed
    /\ LET r == free(Pool, T, ptr)
       IN \/ /\ "crashed" \in Outcome(r.pre)
             /\ m_pools' = m_pools
             /\ status' = "crashed"
          \/ /\ "ok" \in Outcome(r.pre)
             /\ m_pools' = <<r.pool>>
             /\ status' \in Outcome(r.out) \cup AfterOverrun(m_pools)
    /\ ret' = Call("free", T, NoArg, ptr, NoArg)
    /\ UNCHANGED <<m_entities, m_destroyed_entities, view>>

\* chunk is a chunk of the pool's blocks, whether or not it holds an object
PoolFreeChunk(chunk) ==
    /\ status = "ok"
    /\ chunk \in DOMAIN Pool.chunks
    /\ Len(Pool.m_freed_locations) < PoolMaxFreed
    /\ LET r == free_chunk(Pool, chunk)
       IN /\ m_pools' = <<r.pool>>
          /\ status' \in Outcome(r.out) \cup AfterOverrun(m_pools)
          /\ ret' = Call("free_chunk", "", NoArg, chunk, NoArg)
    /\ UNCHANGED <<m_entities, m_destroyed_entities, view>>

PoolSetDefaultConstructor(fn) ==
    /\ status = "ok"
    /\ m_pools' = <<set_default_constructor(Pool, fn)>>
    /\ ret' = Call("set_default_constructor", fn, NoArg, NoArg, NoArg)
    /\ UNCHANGED <<m_entities, m_destroyed_entities, view, status>>

PoolSetDeconstructor(fn) ==
    /\ status = "ok"
    /\ m_pools' = <<set_deconstructor(Pool, fn)>>
    /\ ret' = Call("set_deconstructor", fn, NoArg, NoArg, NoArg)
    /\ UNCHANGED <<m_entities, m_destroyed_entities, view, status>>

PoolLookup(T, entity) ==
    /\ status = "ok"
    /\ LET r == get_entitys_object(Pool, T, entity)
       IN /\ status' \in Outcome(r.out)
          /\ ret' = Call("get_entitys_object", T, entity, NoArg, r.ptr)
    /\ UNCHANGED <<m_entities, m_destroyed_entities, m_pools, view>>

PoolLookupChunk(entity) ==
    /\ status = "ok"
    /\ LET r == get_entitys_object_pool_chunk(Pool, entity)
       IN /\ status' \in Outcome(r.out)
          /\ ret' = Call("get_entitys_object_pool_chunk", "", entity, NoArg, r.ptr)
    /\ UNCHANGED <<m_entities, m_destroyed_entities, m_pools, view>>

\* owners a caller of a standalone pool tags its records with
PoolEntities == 0..(MaxEntities - 1)

\* values a caller of a standalone pool constructs its records from
PoolValues == {1}

PoolNext ==
    \/ \E T \in Types, entity \in PoolEntities, value \in PoolValues :
          PoolMalloc(T, entity, value)
    \/ \E entity \in PoolEntities : PoolMallocBytes(entity)
    \/ \E T \in Types, ptr \in 1..(PoolMaxChunks + 2) : PoolFree(T, ptr)
    \/ \E chunk \in 1..(PoolMaxChunks + 2) : PoolFreeChunk(chunk)
    \/ \E fn \in Callbacks : PoolSetDefaultConstructor(fn)
    \/ \E fn \in Callbacks : PoolSetDeconstructor(fn)
    \/ \E T \in Types, entity \in PoolEntities \cup {ECS_ENTITY_DESTROYED} : PoolLookup(T, entity)
    \/ \E entity \in PoolEntities \cup {ECS_ENTITY_DESTROYED} : PoolLookupChunk(entity)

PoolSpec == PoolInit /\ [][PoolNext]_vars

-----------------------------------------------------------------------------
(* A View over a Registry: the Registry's calls and has_required *)

ViewInit ==
    /\ m_entities = <<>>
    /\ m_destroyed_entities = <<>>
    /\ m_pools = <<>>
    /\ \E ts \in ViewTypeLists : view = View(ts)
    /\ status = "ok"
    /\ ret = Call("none", "", NoArg, NoArg, NoArg)

HasRequired(entity) ==
    /\ status = "ok"
    /\ LET r == has_required(m_pools, view, entity)
       IN \/ /\ "crashed" \in Outcome(r.pre)
             /\ view' = [view EXCEPT !.m_reserved_from_valid = r.cleared]
             /\ status' = "crashed"
             /\ ret' = Call("has_required", "", entity, NoArg, NoArg)
          \/ /\ "ok" \in Outcome(r.pre)
             /\ view' = [view EXCEPT !.m_reserved_from_valid = r.cache]
             /\ status' = "ok"
             /\ ret' = Call("has_required", "", entity, NoArg, IF r.result THEN 1 ELSE 0)
    /\ UNCHANGED <<m_entities, m_destroyed_entities, m_pools>>

ViewNext ==
    \/ CreateEntity
    \/ \E entity \in EntityInputs : DestroyEntity(entity)
    \/ \E T \in Types, entity \in EntityInputs, value \in Values :
          CreateComponent(T, entity, value)
    \/ \E entity \in EntityInputs, d \in ErasedArgs : CreateComponentBytes(entity, d)
    \/ \E entity \in EntityInputs : HasRequired(entity)

ViewSpec == ViewInit /\ [][ViewNext]_vars

-----------------------------------------------------------------------------
(* A View queried after has_required: the calls of ViewSpec and get *)

\* get<_Target>() compiles for the types of the View only
Get(T) ==
    /\ status = "ok"
    /\ \E i \in 1..Len(view.types) : view.types[i] = T
    /\ ret' = Call("get", T, NoArg, NoArg, get(view, T))
    /\ UNCHANGED <<m_entities, m_destroyed_entities, m_pools, view, status>>

QueryNext ==
    \/ CreateEntity
    \/ \E entity \in EntityInputs : DestroyEntity(entity)
    \/ \E T \in Types, entity \in EntityInputs, value \in Values :
          CreateComponent(T, entity, value)
    \/ \E entity \in EntityInputs, d \in ErasedArgs : CreateComponentBytes(entity, d)
    \/ \E entity \in EntityInputs : HasRequired(entity)
    \/ \E T \in Types : Get(T)

QuerySpec == ViewInit /\ [][QueryNext]_vars

-----------------------------------------------------------------------------
(* A Registry whose pools are registered through both create_component paths *)

CreateComponentErased(entity, d) ==
    /\ status = "ok"
    /\ IF entity = ECS_ENTITY_DESTROYED
       THEN /\ status' = "aborted"
            /\ ret' = Call("create_component_erased", d.name, entity, d.id, Null)
            /\ UNCHANGED <<m_entities, m_destroyed_entities, m_pools, view>>
       ELSE /\ LET found == get_pool(m_pools, d.id)
               IN WithinChunks(m_pools, found)
            /\ LET r == create_component_bytes(m_pools, entity, d)
                   found == get_pool(m_pools, d.id)
               IN /\ \/ /\ r.target = Null
                        /\ m_pools' = r.pools
                     \/ /\ r.target # Null
                        /\ \E q \in written_behind(r.pools[r.target], r.behind) :
                              m_pools' = [r.pools EXCEPT ![r.target] = q]
                  /\ status' \in Outcome(r.out)
                                   \cup (IF found = Null \/ allocates(m_pools[found])
                                         THEN AfterOverrun(m_pools) ELSE {})
                  /\ ret' = Call("create_component_erased", d.name, entity, d.id, r.ptr)
            /\ UNCHANGED <<m_entities, m_destroyed_entities, view>>

\* values a typed create_component constructs its component from here
ErasedValues == {1}

ErasedNext ==
    \/ CreateEntity
    \/ \E entity \in EntityInputs : DestroyEntity(entity)
    \/ \E T \in Types, entity \in EntityInputs, value \in ErasedValues :
          CreateComponent(T, entity, value)
    \/ \E entity \in EntityInputs, d \in WideErasedArgs \cup RejectedErasedArgs :
          CreateComponentErased(entity, d)

ErasedSpec == Init /\ [][ErasedNext]_vars

-----------------------------------------------------------------------------
(* A Registry used through its const interface as well *)

GetPoolConst(T) ==
    /\ status = "ok"
    /\ LET r == get_pool_const(m_pools, get_hash(get_name(T).name), 1)
       IN /\ status' \in Outcome(r.out)
          /\ ret' = Call("get_pool_const", T, NoArg, NoArg, r.ptr)
    /\ UNCHANGED <<m_entities, m_destroyed_entities, m_pools, view>>

GetPoolOfConst(T) ==
    /\ status = "ok"
    /\ LET r == get_pool_of_const(m_pools, T)
       IN /\ status' \in (IF "crashed" \in Outcome(r.pre) THEN {"crashed"} ELSE {})
                             \cup Outcome(r.out)
          /\ ret' = Call("get_pool_of_const", T, NoArg, NoArg, r.ptr)
    /\ UNCHANGED <<m_entities, m_destroyed_entities, m_pools, view>>

GetComponentConst(T, entity) ==
    /\ status = "ok"
    /\ LET r == get_component_hash_const(m_pools, entity, get_hash(get_name(T).name), 1)
       IN /\ status' \in Outcome(r.out)
          /\ ret' = Call("get_component_const", T, entity, NoArg, r.ptr)
    /\ UNCHANGED <<m_entities, m_destroyed_entities, m_pools, view>>

ConstNext ==
    \/ CreateEntity
    \/ \E entity \in EntityInputs : DestroyEntity(entity)
    \/ \E T \in Types, entity \in EntityInputs, value \in Values :
          CreateComponent(T, entity, value)
    \/ \E entity \in EntityInputs, d \in ErasedArgs : CreateComponentBytes(entity, d)
    \/ \E T \in Types, entity \in EntityInputs : GetComponent(T, entity)
    \/ \E T \in Types : GetPool(T)
    \/ \E T \in Types : GetPoolConst(T)
    \/ \E T \in Types : GetPoolOfConst(T)
    \/ \E T \in Types, entity \in EntityInputs : GetComponentConst(T, entity)

ConstSpec == Init /\ [][ConstNext]_vars

-----------------------------------------------------------------------------
(* A Registry from construction to destruction *)

\* the Registry goes out of scope: status "destroyed" ends its life
Teardown ==
    /\ status = "ok"
    /\ LET r == Registry_dtor(m_pools)
       IN /\ m_pools' = r.pools
          /\ status' \in (IF r.out = "fault" THEN {"crashed"}
                          ELSE IF r.out = "ub" THEN {"crashed", "destroyed"}
                          ELSE {"destroyed"})
                           \cup AfterOverrun(m_pools)
    /\ ret' = Call("teardown", "", NoArg, NoArg, NoArg)
    /\ UNCHANGED <<m_entities, m_destroyed_entities, view>>

\* the calls that construct, destruct, allocate or release: the lookups leave
\* m_entities, m_destroyed_entities and m_pools as they are
LifeNext ==
    \/ CreateEntity
    \/ \E entity \in EntityInputs : DestroyEntity(entity)
    \/ \E T \in Types, entity \in EntityInputs, value \in ErasedValues :
          CreateComponent(T, entity, value)
    \/ \E entity \in EntityInputs, d \in ErasedArgs : CreateComponentBytes(entity, d)
    \/ \E entity \in EntityInputs, d \in WideErasedArgs : CreateComponentErased(entity, d)
    \/ Teardown

LifeSpec == Init /\ [][LifeNext]_vars

-----------------------------------------------------------------------------
(* Vocabulary of the properties *)

\* entity is an id of the entity array whose entry is active
Live(entity) ==
    /\ entity # ECS_ENTITY_DESTROYED
    /\ entity < Len(m_entities)
    /\ m_entities[entity + 1] = entity

\* entity is a value stored in the entity array
InArray(entity) == \E i \in DOMAIN m_entities : m_entities[i] = entity

\* the chunks of pool p, of every block, whose owner tag is entity
Tagged(p, entity) == {c \in DOMAIN p.chunks : p.chunks[c].entity = entity}

Range(s) == {s[i] : i \in DOMAIN s}

\* chunks no allocation has handed out yet: written by _allocate_block and
\* given to no _construct, whatever their header holds by now and whether or
\* not a free has pushed them on the free list
NeverUsed(p) == DOMAIN p.chunks \ p.handed

\* the sequence 0, 1, ..., n-1
Ids(n) == [i \in 1..n |-> i - 1]

\* no entry of the entity array is destroyed or waits for recycling
Pristine == m_destroyed_entities = <<>> /\ m_entities = Ids(Len(m_entities))

-----------------------------------------------------------------------------
(* Properties *)

\* the Registry is used as its contract asks: every owner tag is a live
\* entity and no entity owns two chunks of one pool
WellUsed ==
    \A i \in DOMAIN m_pools : \A c \in DOMAIN m_pools[i].chunks :
        LET owner == m_pools[i].chunks[c].entity
        IN owner # ECS_ENTITY_DESTROYED =>
              Live(owner) /\ Cardinality(Tagged(m_pools[i], owner)) = 1

\* entity owns a chunk of the pool registered for type T
Holds(T, entity) ==
    /\ get_pool_of(m_pools, T) # Null
    /\ Tagged(m_pools[get_pool_of(m_pools, T)], entity) # {}

\* C1: in a well-used Registry, create_component<T>(e, args) on a live entity
\* e that has no T component, followed by get_component<T>(e), yields the
\* chunk create_component returned, holding the value constructed from args
\* -- however many chunks and blocks T's pool has.
C1_RoundTrip ==
    [][(/\ ret'.op = "create_component"
        /\ status' = "ok"
        /\ WellUsed
        /\ Live(ret'.entity)
        /\ ~Holds(ret'.type, ret'.entity)) =>
         /\ get_component(m_pools', ret'.type, ret'.entity).ptr = ret'.val
         /\ m_pools'[get_pool_of(m_pools', ret'.type)].objects[ret'.val]
               = [live |-> TRUE, value |-> ret'.arg]
      ]_vars

\* C2: after destroy_entity(e) has returned on a well-used Registry, no chunk
\* of any registered pool, in any block, is tagged e, and every chunk that
\* was tagged e has been destructed.
C2_NoComponentOutlivesEntity ==
    [][(/\ ret'.op = "destroy_entity"
        /\ status' = "ok"
        /\ WellUsed) =>
         \A i \in DOMAIN m_pools :
            /\ Tagged(m_pools'[i], ret'.entity) = {}
            /\ \A c \in Tagged(m_pools[i], ret'.entity) : ~m_pools'[i].objects[c].live
      ]_vars

\* C3: on a well-used Registry and for an entity value e of the entity array,
\* has_required(e) is true exactly when e is not the sentinel and every
\* required type has a pool that holds a chunk tagged e.
C3_HasRequiredIff ==
    (ret.op = "has_required" /\ status = "ok" /\ WellUsed /\ InArray(ret.entity))
    => ((ret.val = 1) <=>
           /\ ret.entity # ECS_ENTITY_DESTROYED
           /\ \A i \in 1..Len(view.types) : Holds(view.types[i], ret.entity))

\* C4: create_entity recycles last-in first-out: with a non-empty destroyed-id
\* list it returns the id at the back of the list, reactivates its entry and
\* mints nothing; with an empty list it mints the id equal to the entity
\* count; and right after a destroy_entity(e) that returned it returns e.
C4_RecycleLIFO ==
    [][ret'.op = "create_entity" =>
         /\ Len(m_destroyed_entities) > 0 =>
               /\ ret'.val = Last(m_destroyed_entities)
               /\ m_entities'[ret'.val + 1] = ret'.val
               /\ Len(m_entities') = Len(m_entities)
               /\ m_destroyed_entities' = pop_back(m_destroyed_entities)
         /\ Len(m_destroyed_entities) = 0 =>
               /\ ret'.val = Len(m_entities)
               /\ m_entities' = Append(m_entities, Len(m_entities))
               /\ m_destroyed_entities' = <<>>
         /\ ret.op = "destroy_entity" => ret'.val = ret.entity
      ]_vars

\* a recycled id was returned while another destroyed id still waits
C4_Witness ==
    /\ ret.op = "create_entity"
    /\ Len(m_destroyed_entities) > 0
    /\ Live(ret.val)

\* C5: on a Registry on which destroy_entity is not called, the entity array
\* stays 0, 1, ..., n-1 and each create_entity returns the entity count before
\* the call, so the N-th call returns N-1.
C5_SequentialIds ==
    [][(Pristine /\ ret'.op # "destroy_entity") =>
         /\ Pristine'
         /\ ret'.op = "create_entity" =>
               /\ ret'.val = Len(m_entities)
               /\ Len(m_entities') = Len(m_entities) + 1
      ]_vars

\* the last of MaxEntities calls in a row returned MaxEntities - 1
C5_Witness ==
    /\ ret.op = "create_entity"
    /\ Pristine
    /\ Len(m_entities) = MaxEntities
    /\ ret.val = MaxEntities - 1

\* C6: a malloc of the pool's own type issued while the free list is not
\* empty completes normally, returns the chunk at the back of the free list
\* tagged with the new entity, removes exactly that chunk from the free list
\* and leaves the block count unchanged.
C6_FreeListReuse ==
    [][(/\ ret'.op = "malloc"
        /\ get_name(ret'.type).name = Pool.m_type_name
        /\ Len(Pool.m_freed_locations) > 0) =>
         /\ status' = "ok"
         /\ ret'.val = Last(Pool.m_freed_locations)
         /\ m_pools'[1].chunks[ret'.val].entity = ret'.entity
         /\ m_pools'[1].m_freed_locations = pop_back(Pool.m_freed_locations)
         /\ Len(m_pools'[1].m_blocks) = Len(Pool.m_blocks)
      ]_vars

\* C7: the block count changes only in a malloc that finds the free list
\* empty and no never-used chunk in the blocks allocated so far, and then by
\* exactly one block of m_block_size chunks.
C7_BlockGrowth ==
    [][Len(m_pools'[1].m_blocks) # Len(Pool.m_blocks) =>
         /\ ret'.op \in {"malloc", "malloc_bytes"}
         /\ Len(Pool.m_freed_locations) = 0
         /\ NeverUsed(Pool) = {}
         /\ Len(m_pools'[1].m_blocks) = Len(Pool.m_blocks) + 1
         /\ Len(m_pools'[1].chunks) = Len(Pool.chunks) + Pool.m_block_size
      ]_vars

\* C8: destroy_entity with an id whose entry of the entity array is already
\* the sentinel takes the fatal path and leaves the entity array, the
\* destroyed-id list and the pools unchanged.
C8_DoubleDestroyFatal ==
    [][(/\ ret'.op = "destroy_entity"
        /\ ret'.entity # ECS_ENTITY_DESTROYED
        /\ ret'.entity < Len(m_entities)
        /\ m_entities[ret'.entity + 1] = ECS_ENTITY_DESTROYED) =>
         /\ status' = "aborted"
         /\ UNCHANGED <<m_entities, m_destroyed_entities, m_pools>>
      ]_vars

\* C9: get_entitys_object<T> on a pool that has blocks and whose registered
\* type is not T takes the type-contradiction exit instead of returning a
\* pointer or absence.
C9_LookupTypeContradiction ==
    [][(/\ ret'.op = "get_entitys_object"
        /\ Len(Pool.m_blocks) > 0
        /\ get_name(ret'.type).name # Pool.m_type_name) =>
         status' = "exited"
      ]_vars

\* C10: malloc<T> and free<T> on a pool whose registered type name is not T's
\* name end in the exit of the type check before any change: the chunks, the
\* payloads, the free list, the cursor and the block list are as before.
C10_TypeContradiction ==
    [][(/\ ret'.op \in {"malloc", "free"}
        /\ get_name(ret'.type).name # Pool.m_type_name) =>
         /\ status' = "exited"
         /\ m_pools' = m_pools
      ]_vars

\* every owner tag of every pool is the sentinel or a live entity
TagsLive ==
    \A i \in DOMAIN m_pools : \A c \in DOMAIN m_pools[i].chunks :
        LET owner == m_pools[i].chunks[c].entity
        IN owner # ECS_ENTITY_DESTROYED => Live(owner)

\* the calls that create a component
CreateOps == {"create_component", "create_component_bytes"}

\* C11: create_component, typed or type-erased, called with the sentinel or
\* with an id at or above the entity count takes the fatal path, registers no
\* pool and allocates no chunk.
C11_InvalidEntityFatal ==
    [][(/\ ret'.op \in CreateOps
        /\ \/ ret'.entity = ECS_ENTITY_DESTROYED
           \/ ret'.entity >= Len(m_entities)) =>
         /\ status' = "aborted"
         /\ m_pools' = m_pools
      ]_vars

\* C12: destroy_entity called with the sentinel or with an id at or above the
\* entity count takes the fatal path and leaves the entity array, the
\* destroyed-id list and every pool unchanged.
C12_InvalidDestroyFatal ==
    [][(/\ ret'.op = "destroy_entity"
        /\ \/ ret'.entity = ECS_ENTITY_DESTROYED
           \/ ret'.entity >= Len(m_entities)) =>
         /\ status' = "aborted"
         /\ UNCHANGED <<m_entities, m_destroyed_entities, m_pools>>
      ]_vars

\* an out-of-range destroy_entity aborted on a Registry that has an entity
\* and a pool
C12_Witness ==
    /\ status = "aborted"
    /\ ret.op = "destroy_entity"
    /\ ret.entity # ECS_ENTITY_DESTROYED
    /\ ret.entity >= Len(m_entities)
    /\ Len(m_entities) > 0
    /\ Len(m_pools) > 0

\* C13: create_entity never returns an id that is live at the call, and after
\* every call that returns, the destroyed-id list holds no id twice and only
\* ids whose entry of the entity array is the sentinel.
C13_NoIdLiveTwice ==
    [][/\ ret'.op = "create_entity" => ~Live(ret'.val)
       /\ status' = "ok" =>
             /\ \A i, j \in DOMAIN m_destroyed_entities' :
                   i # j => m_destroyed_entities'[i] # m_destroyed_entities'[j]
             /\ \A i \in DOMAIN m_destroyed_entities' :
                   m_entities'[m_destroyed_entities'[i] + 1] = ECS_ENTITY_DESTROYED
      ]_vars

\* C14: in every state of a Registry whose owner tags are live entities, an
\* entity is the owner tag of at most one chunk of each pool.
C14_OneSlotPerEntity ==
    TagsLive =>
       \A i \in DOMAIN m_pools : \A c1, c2 \in DOMAIN m_pools[i].chunks :
          (/\ m_pools[i].chunks[c1].entity # ECS_ENTITY_DESTROYED
           /\ m_pools[i].chunks[c1].entity = m_pools[i].chunks[c2].entity) => c1 = c2

\* C15: in every state of a running Registry, the owner tag of every chunk of
\* every pool is the sentinel or the id of a live entity.
C15_TagsLiveOrSentinel ==
    status = "ok" => TagsLive

\* C16: no two registered pools have the same type hash; a pool found for a
\* type stays the pool found for it; a type gets a pool only in a
\* create_component for that type; and a call registers at most one pool.
C16_PoolsLazyOnce ==
    [][/\ \A i, j \in DOMAIN m_pools' :
             i # j => m_pools'[i].m_type_hash # m_pools'[j].m_type_hash
       /\ \A T \in Types :
             /\ get_pool_of(m_pools, T) # Null =>
                   /\ get_pool_of(m_pools', T) = get_pool_of(m_pools, T)
                   /\ (ret'.op \in CreateOps /\ get_hash(ret'.type) = get_hash(get_name(T).name))
                         => Len(m_pools') = Len(m_pools)
             /\ (get_pool_of(m_pools, T) = Null /\ get_pool_of(m_pools', T) # Null) =>
                   /\ ret'.op \in CreateOps
                   /\ get_hash(ret'.type) = get_hash(get_name(T).name)
                   /\ get_pool_of(m_pools', T) = Len(m_pools) + 1
       /\ Len(m_pools') <= Len(m_pools) + 1
      ]_vars

\* get_pool returned the one pool of a type for which create_component was
\* called twice
C16_Witness ==
    /\ ret.op = "get_pool"
    /\ ret.val # Null
    /\ InUse(m_pools[ret.val]) >= 2
    /\ \A i \in DOMAIN m_pools : m_pools[i].m_type_hash = m_pools[ret.val].m_type_hash
                                     => i = ret.val

\* C19: the entity array never shrinks, entry i is always i or the sentinel,
\* and destroy_entity(e) on a live e marks entry e and leaves the length and
\* every other entry as they were.
C19_DestroyFrame ==
    [][/\ Len(m_entities') >= Len(m_entities)
       /\ \A i \in DOMAIN m_entities' :
             m_entities'[i] = i - 1 \/ m_entities'[i] = ECS_ENTITY_DESTROYED
       /\ (ret'.op = "destroy_entity" /\ Live(ret'.entity)) =>
             /\ Len(m_entities') = Len(m_entities)
             /\ m_entities'[ret'.entity + 1] = ECS_ENTITY_DESTROYED
             /\ \A i \in DOMAIN m_entities :
                   i # ret'.entity + 1 => m_entities'[i] = m_entities[i]
      ]_vars

\* destroy_entity returned on a Registry of two entities: its entry is
\* marked, the other entity is still live
C19_Witness ==
    /\ ret.op = "destroy_entity"
    /\ status = "ok"
    /\ Len(m_entities) = MaxEntities
    /\ m_entities[ret.entity + 1] = ECS_ENTITY_DESTROYED
    /\ \E e \in 0..(MaxEntities - 1) : e # ret.entity /\ Live(e)

\* the first chunk of pool p, in block-allocation order and chunk order within
\* a block, whose owner tag is entity; Null when no chunk carries the tag
FirstTagged(p, entity) ==
    IF Tagged(p, entity) = {} THEN Null
    ELSE CHOOSE c \in Tagged(p, entity) : \A o \in Tagged(p, entity) : c <= o

\* C17: on a pool with blocks, a lookup of an entity through the pool's own
\* type (or through the untyped lookup) returns the first chunk of any block
\* tagged with the entity, and absence only when no chunk of any block is.
C17_LookupCoversBlocks ==
    [][(/\ \/ ret'.op = "get_entitys_object_pool_chunk"
           \/ ret'.op = "get_entitys_object" /\ get_name(ret'.type).name = Pool.m_type_name
        /\ ret'.entity # ECS_ENTITY_DESTROYED
        /\ Len(Pool.m_blocks) > 0) =>
         /\ status' = "ok"
         /\ ret'.val = FirstTagged(Pool, ret'.entity)
      ]_vars

\* the public calls of a Registry
PublicOps ==
    {"create_entity", "destroy_entity", "create_component", "create_component_bytes",
     "get_component", "get_pool", "get_pool_const", "get_pool_of_const",
     "get_component_const"}

\* C18: every call of a public operation of the Registry, the const overloads
\* included, ends after finitely many steps: it returns its result or takes
\* one of the fatal paths (assert, type-contradiction exit); it neither runs
\* forever nor brings the process down.
C18_RunsToCompletion ==
    [][ret'.op \in PublicOps => status' \in {"ok", "aborted", "exited"}]_vars

\* chunk c of pool i holds a constructed object in the list of pools
Constructed(pools, i, c) ==
    i \in DOMAIN pools /\ c \in DOMAIN pools[i].objects /\ pools[i].objects[c].live

\* the pool a create_component call worked on: the first pool with the hash
\* the call carries, or the hash of the type it names
CalledPool(pools, r) ==
    IF r.op = "create_component_erased" THEN get_pool(pools, r.arg)
    ELSE get_pool_of(pools, r.type)

\* C20: a payload is constructed only by a create_component, on the chunk it
\* returns, which held no object; an object is destructed only by
\* destroy_entity, on a chunk that held one, or at teardown; teardown runs
\* the destructor on exactly the chunks not marked destroyed, which are
\* exactly the chunks holding an object and none of the free or never-used
\* ones, leaves no object behind and releases the blocks, which nothing else
\* does.
C20_ConstructDestroyBalance ==
    [][/\ \A i \in DOMAIN m_pools' : \A c \in DOMAIN m_pools'[i].objects :
             (~Constructed(m_pools, i, c) /\ Constructed(m_pools', i, c)) =>
                 /\ ret'.op \in CreateOps \cup {"create_component_erased"}
                 /\ i = CalledPool(m_pools', ret')
                 /\ c = ret'.val
       /\ (ret'.op \in CreateOps \cup {"create_component_erased"} /\ status' = "ok") =>
             /\ ~Constructed(m_pools, CalledPool(m_pools', ret'), ret'.val)
             /\ Constructed(m_pools', CalledPool(m_pools', ret'), ret'.val)
       /\ \A i \in DOMAIN m_pools : \A c \in DOMAIN m_pools[i].objects :
             (Constructed(m_pools, i, c) /\ ~Constructed(m_pools', i, c)) =>
                 ret'.op \in {"destroy_entity", "teardown"}
       /\ ret'.op = "destroy_entity" =>
             \A i \in DOMAIN m_pools :
                \A c \in Range(m_pools'[i].m_freed_locations)
                            \ Range(m_pools[i].m_freed_locations) :
                   Constructed(m_pools, i, c) /\ ~Constructed(m_pools', i, c)
       /\ ret'.op # "teardown" =>
             \A i \in DOMAIN m_pools : Len(m_pools'[i].m_blocks) >= Len(m_pools[i].m_blocks)
       /\ (ret'.op = "teardown" /\ status' = "destroyed") =>
             \A i \in DOMAIN m_pools :
                LET called == ObjectPool_dtor(m_pools[i]).called
                IN /\ called = LiveChunks(m_pools[i])
                   /\ called = {c \in DOMAIN m_pools[i].chunks :
                                   m_pools[i].chunks[c].entity # ECS_ENTITY_DESTROYED}
                   /\ called \cap Range(m_pools[i].m_freed_locations) = {}
                   /\ called \cap NeverUsed(m_pools[i]) = {}
                   /\ LiveChunks(m_pools'[i]) = {}
                   /\ m_pools'[i].m_blocks = <<>>
      ]_vars

\* C21: when has_required(e) has returned true, the cached pointer of every
\* type of the View is the chunk get_component finds for e in that type's
\* pool, and a get<T>() that follows returns that chunk, which is tagged e.
C21_ViewGet ==
    [][/\ (ret'.op = "has_required" /\ ret'.val = 1) =>
             \A i \in 1..Len(view'.types) :
                get(view', view'.types[i])
                   = get_component(m_pools', view'.types[i], ret'.entity).ptr
       /\ (ret.op = "has_required" /\ ret.val = 1 /\ ret'.op = "get") =>
             /\ ret'.val # Null
             /\ ret'.val = get_component(m_pools, ret'.type, ret.entity).ptr
             /\ m_pools[get_pool_of(m_pools, ret'.type)].chunks[ret'.val].entity = ret.entity
      ]_vars

\* get returned the chunk of the second type of a two-type View whose last
\* has_required found both types
C21_Witness ==
    /\ ret.op = "get"
    /\ Len(view.types) = 2
    /\ ret.type = view.types[2]
    /\ ret.val # Null
    /\ \A i \in 1..Len(view.types) : view.m_reserved_from_valid[i] # Null

\* C22: a chunk that holds a record keeps its owner tag, its payload and its
\* place (the blocks stay where they are) through every call except the free
\* of that chunk, and no malloc returns a chunk that holds a record.
C22_SlotsStable ==
    [][/\ \A c \in LiveChunks(Pool) :
             ~(ret'.op \in {"free", "free_chunk"} /\ ret'.arg = c) =>
                 /\ c \in DOMAIN m_pools'[1].chunks
                 /\ m_pools'[1].chunks[c].entity = Pool.chunks[c].entity
                 /\ m_pools'[1].objects[c] = Pool.objects[c]
       /\ \A b \in DOMAIN Pool.m_blocks :
             /\ b \in DOMAIN m_pools'[1].m_blocks
             /\ m_pools'[1].m_blocks[b] = Pool.m_blocks[b]
       /\ (ret'.op \in {"malloc", "malloc_bytes"} /\ ret'.val # Null) =>
             /\ ret'.val \notin LiveChunks(Pool)
             /\ ret'.val \in DOMAIN Pool.chunks =>
                   Pool.chunks[ret'.val].entity = ECS_ENTITY_DESTROYED
      ]_vars

\* the position in the View's type list of the first type whose pool is
\* missing or holds no chunk the lookup finds for entity; one past the list
\* when there is none
FirstMiss(pools, v, entity) ==
    LET misses == {i \in 1..Len(v.types) :
                      get_component(pools, v.types[i], entity).ptr = Null}
    IN IF misses = {} THEN Len(v.types) + 1
       ELSE CHOOSE i \in misses : \A j \in misses : i <= j

\* C23: has_required(sentinel) returns false and leaves the cache as it was;
\* for another entity a call that returns answers true exactly when no type
\* misses, the types before the first miss are cached with the chunk found,
\* and the first miss and every type after it are cached null, whatever the
\* cache held before and whether or not a later type would have been found.
C23_HasRequiredOrder ==
    [][ret'.op = "has_required" =>
         /\ ret'.entity = ECS_ENTITY_DESTROYED =>
               /\ status' = "ok"
               /\ ret'.val = 0
               /\ view' = view
         /\ (ret'.entity # ECS_ENTITY_DESTROYED /\ status' = "ok") =>
               LET k == FirstMiss(m_pools, view, ret'.entity)
               IN /\ (ret'.val = 1) <=> (k > Len(view.types))
                  /\ \A i \in 1..Len(view.types) :
                        view'.m_reserved_from_valid[i] =
                           IF i < k
                           THEN get_component(m_pools, view.types[i], ret'.entity).ptr
                           ELSE Null
      ]_vars

\* has_required returned false at the first type of a two-type View although
\* the entity's record of the second type would have been found: nothing is
\* cached
C23_Witness ==
    /\ ret.op = "has_required"
    /\ ret.val = 0
    /\ ret.entity # ECS_ENTITY_DESTROYED
    /\ Len(view.types) = 2
    /\ get_component(m_pools, view.types[1], ret.entity).ptr = Null
    /\ get_component(m_pools, view.types[2], ret.entity).ptr # Null
    /\ \A i \in 1..2 : view.m_reserved_from_valid[i] = Null

\* the chunks of pool p that carry an owner tag
Owned(p) == {c \in DOMAIN p.chunks : p.chunks[c].entity # ECS_ENTITY_DESTROYED}

\* what a pool is registered with: name, element size, hash, block size and
\* the two callbacks
Registration(p) ==
    <<p.m_type_name, p.m_type_size, p.m_type_hash, p.m_block_size,
      p.m_type_default_constructor, p.m_type_deconstructor>>

\* C24: a create_component, typed or type-erased, whose hash already has a
\* pool registers no pool, leaves every other pool as it is and the pool
\* found with the registration it had, whatever name, size, block size and
\* callbacks the call carries; when it returns, the one change is the chunk
\* returned, which was not owned and is now tagged with the entity.
C24_FirstRegistrationWins ==
    [][LET hash == IF ret'.op = "create_component"
                   THEN get_hash(get_name(ret'.type).name)
                   ELSE ret'.arg
           found == get_pool(m_pools, hash)
       IN (ret'.op \in {"create_component", "create_component_erased"} /\ found # Null) =>
             /\ Len(m_pools') = Len(m_pools)
             /\ \A i \in DOMAIN m_pools : i # found => m_pools'[i] = m_pools[i]
             /\ Registration(m_pools'[found]) = Registration(m_pools[found])
             /\ status' = "ok" =>
                   /\ ret'.val \notin Owned(m_pools[found])
                   /\ Owned(m_pools'[found]) = Owned(m_pools[found]) \cup {ret'.val}
                   /\ m_pools'[found].chunks[ret'.val].entity = ret'.entity
      ]_vars

\* the chunks reached from chunk by following next
RECURSIVE ChainFrom(_, _)
ChainFrom(p, chunk) ==
    IF chunk = Null THEN {} ELSE {chunk} \cup ChainFrom(p, p.chunks[chunk].next)

\* the chunks still to be handed out by the cursor
Fresh(p) == ChainFrom(p, p.m_next)

\* C25: in every state of a running pool each chunk of each block is in
\* exactly one of three sets -- owned, on the free list, reachable from the
\* cursor -- so the three sizes add up to block count times block size; and
\* a malloc served from the free list leaves the cursor where it was.
C25_SlotAccounting ==
    [][/\ status' = "ok" =>
             LET p == m_pools'[1]
             IN /\ \A c \in DOMAIN p.chunks :
                      Cardinality({k \in 1..3 :
                                      \/ k = 1 /\ c \in Owned(p)
                                      \/ k = 2 /\ c \in Range(p.m_freed_locations)
                                      \/ k = 3 /\ c \in Fresh(p)}) = 1
                /\ Cardinality(Owned(p)) + Len(p.m_freed_locations) + Cardinality(Fresh(p))
                      = Len(p.m_blocks) * p.m_block_size
       /\ (/\ ret'.op \in {"malloc", "malloc_bytes"}
           /\ status' = "ok"
           /\ Len(Pool.m_freed_locations) > 0) =>
             m_pools'[1].m_next = Pool.m_next
      ]_vars

\* C26: right after create_entity has returned e, minted or recycled,
\* get_component<T>(e) is absent for every type and has_required(e) is false
\* for the View.
C26_FreshEntityEmpty ==
    ret.op = "create_entity" =>
       /\ \A T \in Types : get_component(m_pools, T, ret.val).ptr = Null
       /\ ~has_required(m_pools, view, ret.val).result

====
